---- MODULE Spec2Model ----
(***************************************************************************)
(* Model of src/audio_sim.py: the audio callback analyze_audio (producer   *)
(* thread), the animation callback update_plot (consumer thread) and the   *)
(* module-level state they share under data_lock.                          *)
(*                                                                         *)
(* Numbers.  Frequencies and band energies are float64 values in the       *)
(* program.  They are modelled as float64 values: every sum, product and   *)
(* quotient is rounded to the nearest float64, ties to even, and np.mean   *)
(* adds in the order of numpy's pairwise summation.  No value of the       *)
(* program is negative (magnitudes, frequencies and their means), so only  *)
(* the floats that are not negative are modelled, NaN and +inf among them. *)
(*                                                                         *)
(* Input.  The forward transform np.abs(np.fft.rfft(samples)) is not       *)
(* modelled: an input frame is given by its length and its magnitude       *)
(* spectrum (the value of `fft` after line 32), whose entries are whole    *)
(* numbers.  Everything from line 33 on is modelled from the code.         *)
(***************************************************************************)
EXTENDS Integers, Sequences, FiniteSets, TLC

\* ---------------------------------------------------------------- bounds

\* Largest number of analyze_audio calls in a behaviour with freely chosen frames.
MaxCalls == 5
\* Number of analyze_audio calls in a scripted (long) run.
RunLen == 250
\* Largest number of update_plot calls in a behaviour.
MaxPlots == 2
\* Longest repeating frame pattern of a scripted run.
PatLen == 2
\* In a scripted run update_plot is called during the last PlotLead calls of
\* analyze_audio or after them.
PlotLead == 1
\* Largest number of analyze_audio calls in a behaviour checked under fair
\* scheduling; update_plot is called without limit there.
FairCalls == 2
\* The magnitudes of the frames of the band-energy checks are 0 .. MaxLevel.
MaxLevel == 2

\* ------------------------------------------------------- program constants

HISTORY_MAXLEN == 200
RECENT_MAXLEN == 20
BEAT_COOLDOWN == 15
MIN_HISTORY == 5
SAMPLE_RATE == 44100
BLOCKSIZE == 1024
\* Faulty variant of InitLastBeat: a sentinel one cooldown before sample 0.
InitLastBeatFar == 0 - BEAT_COOLDOWN
InitLastBeat == -1
BASS_LO == 20
BASS_HI == 250
MID_HI == 4000
TREBLE_HI == 16000

\* ---------------------------------------------------------------- numbers

\* Naturals of any size: little-endian sequences of limbs in 0 .. LIMB - 1
\* whose highest limb is not 0; << >> is zero.  (TLC's integers have 32 bits,
\* a float64 significand 53.)
LIMB_BITS == 15
LIMB == 2 ^ LIMB_BITS

Max(a, b) == IF a > b THEN a ELSE b

RECURSIVE Trim(_)
Trim(a) ==
    IF a = << >> THEN a
    ELSE IF a[Len(a)] = 0 THEN Trim(SubSeq(a, 1, Len(a) - 1))
    ELSE a

RECURSIVE BigOfInt(_)
BigOfInt(n) == IF n = 0 THEN << >> ELSE <<n % LIMB>> \o BigOfInt(n \div LIMB)

Limb(a, i) == IF i >= 1 /\ i <= Len(a) THEN a[i] ELSE 0

RECURSIVE AddFrom(_, _, _, _)
AddFrom(a, b, i, carry) ==
    IF i > Len(a) /\ i > Len(b)
    THEN IF carry = 0 THEN << >> ELSE <<carry>>
    ELSE LET t == Limb(a, i) + Limb(b, i) + carry IN
         <<t % LIMB>> \o AddFrom(a, b, i + 1, t \div LIMB)

BigAdd(a, b) == AddFrom(a, b, 1, 0)

\* a - b for a >= b.
RECURSIVE SubFrom(_, _, _, _)
SubFrom(a, b, i, borrow) ==
    IF i > Len(a) THEN << >>
    ELSE LET t == a[i] - Limb(b, i) - borrow IN
         <<(t + LIMB) % LIMB>> \o SubFrom(a, b, i + 1, IF t < 0 THEN 1 ELSE 0)

BigSub(a, b) == Trim(SubFrom(a, b, 1, 0))

\* -1, 0 or 1 as a < b, a = b or a > b.
RECURSIVE CmpFrom(_, _, _)
CmpFrom(a, b, i) ==
    IF i = 0 THEN 0
    ELSE IF a[i] # b[i] THEN (IF a[i] < b[i] THEN -1 ELSE 1)
    ELSE CmpFrom(a, b, i - 1)

BigCmp(a, b) ==
    IF Len(a) # Len(b) THEN (IF Len(a) < Len(b) THEN -1 ELSE 1)
    ELSE CmpFrom(a, b, Len(a))

\* a * k for a limb k.
RECURSIVE MulSmallFrom(_, _, _, _)
MulSmallFrom(a, k, i, carry) ==
    IF i > Len(a)
    THEN IF carry = 0 THEN << >> ELSE <<carry>>
    ELSE LET t == a[i] * k + carry IN
         <<t % LIMB>> \o MulSmallFrom(a, k, i + 1, t \div LIMB)

BigMulSmall(a, k) == IF k = 0 THEN << >> ELSE MulSmallFrom(a, k, 1, 0)

\* a * LIMB^n
ShiftLimbs(a, n) == IF a = << >> THEN a ELSE [i \in 1..n |-> 0] \o a

RECURSIVE MulFrom(_, _, _)
MulFrom(a, b, j) ==
    IF j > Len(b) THEN << >>
    ELSE BigAdd(ShiftLimbs(BigMulSmall(a, b[j]), j - 1), MulFrom(a, b, j + 1))

BigMul(a, b) == MulFrom(a, b, 1)

\* a * 2^s
BigShl(a, s) == ShiftLimbs(BigMulSmall(a, 2 ^ (s % LIMB_BITS)), s \div LIMB_BITS)

\* a \div 2^s
BigShr(a, s) ==
    LET d == s \div LIMB_BITS
        p == 2 ^ (s % LIMB_BITS)
        n == Len(a) - d
    IN IF n <= 0 THEN << >>
       ELSE Trim([i \in 1..n |->
                     (a[i + d] \div p) + (Limb(a, i + d + 1) % p) * (LIMB \div p)])

\* a % 2^s
BigLow(a, s) ==
    LET d == s \div LIMB_BITS
        p == 2 ^ (s % LIMB_BITS)
        n == IF Len(a) < d + 1 THEN Len(a) ELSE d + 1
    IN Trim([i \in 1..n |-> IF i <= d THEN a[i] ELSE a[i] % p])

RECURSIVE Bits(_)
Bits(x) == IF x = 0 THEN 0 ELSE 1 + Bits(x \div 2)

\* The number of bits of a: 0 for zero.
BitLen(a) ==
    IF a = << >> THEN 0 ELSE LIMB_BITS * (Len(a) - 1) + Bits(a[Len(a)])

RECURSIVE LowZeros(_)
LowZeros(x) == IF x % 2 = 1 THEN 0 ELSE 1 + LowZeros(x \div 2)

\* The number of trailing zero bits of a # 0.
RECURSIVE TrailingZeros(_)
TrailingZeros(a) ==
    IF a[1] = 0 THEN LIMB_BITS + TrailingZeros(Tail(a)) ELSE LowZeros(a[1])

IsOdd(a) == a # << >> /\ a[1] % 2 = 1

\* Quotient and remainder of a by a limb k > 0, from limb i down.
RECURSIVE ShortDivFrom(_, _, _, _)
ShortDivFrom(a, k, i, r) ==
    IF i = 0 THEN [q |-> << >>, r |-> r]
    ELSE LET t == r * LIMB + a[i]
             rest == ShortDivFrom(a, k, i - 1, t % k)
         IN [q |-> Append(rest.q, t \div k), r |-> rest.r]

\* Quotient and remainder of r by d, for r < d * 2^(i+1), bit by bit; the
\* quotient is an integer.
RECURSIVE DivBits(_, _, _)
DivBits(r, d, i) ==
    IF i < 0 THEN [q |-> 0, r |-> r]
    ELSE LET di == BigShl(d, i) IN
         IF BigCmp(r, di) >= 0
         THEN LET rest == DivBits(BigSub(r, di), d, i - 1) IN
              [q |-> 2 ^ i + rest.q, r |-> rest.r]
         ELSE DivBits(r, d, i - 1)

\* Quotient and remainder of r by b, for r < b * LIMB^(i+1), limb by limb.
RECURSIVE DivLimbs(_, _, _)
DivLimbs(r, b, i) ==
    IF i < 0 THEN [q |-> << >>, r |-> r]
    ELSE LET top == DivBits(r, ShiftLimbs(b, i), LIMB_BITS - 1)
             rest == DivLimbs(top.r, b, i - 1)
         IN [q |-> Append(rest.q, top.q), r |-> rest.r]

\* Quotient and remainder of a by b # 0.
BigDivMod(a, b) ==
    IF Len(b) = 1
    THEN LET d == ShortDivFrom(a, b[1], Len(a), 0) IN
         [q |-> Trim(d.q), r |-> BigOfInt(d.r)]
    ELSE LET d == DivLimbs(a, b, Len(a) - Len(b)) IN
         [q |-> Trim(d.q), r |-> d.r]

\* float64 (IEEE 754 binary64) values that are not negative: NaN, +inf, and
\* the finite values m * 2^e, m a natural that is odd, or zero with e = 0.
\* A significand has MANT_BITS bits, the lowest bit of a value has exponent
\* MIN_EXP or more, and finite values are below 2^MAX_TOP.
MANT_BITS == 53
MIN_EXP == -1074
MAX_TOP == 1024

NaN == [k |-> "nan", m |-> << >>, e |-> 0]
Inf == [k |-> "inf", m |-> << >>, e |-> 0]
Zero == [k |-> "fin", m |-> << >>, e |-> 0]

IsNaN(x) == x.k = "nan"
IsInf(x) == x.k = "inf"
IsZero(x) == x.k = "fin" /\ x.m = << >>

\* The float m * 2^e, exactly, m having at most MANT_BITS bits above its
\* trailing zeros; +inf when it is 2^MAX_TOP or more.
Norm(m, e) ==
    IF m = << >> THEN Zero
    ELSE IF BitLen(m) + e > MAX_TOP THEN Inf
    ELSE LET z == TrailingZeros(m) IN [k |-> "fin", m |-> BigShr(m, z), e |-> e + z]

\* The float nearest to (m + d) * 2^e, ties to even; 0 < d < 1 when sticky
\* and d = 0 otherwise.
Round(m, e, sticky) ==
    LET t == Max(e + BitLen(m) - MANT_BITS, MIN_EXP)
        s == t - e
        q == BigShr(m, s)
        c == BigCmp(BigLow(m, s), BigShl(<<1>>, s - 1))
        up == c > 0 \/ (c = 0 /\ (sticky \/ IsOdd(q)))
    IN Norm(IF s <= 0 THEN m ELSE IF up THEN BigAdd(q, <<1>>) ELSE q,
            IF s <= 0 THEN e ELSE t)

\* float(n) for an integer 0 <= n < 2^31.
Float(n) == Norm(BigOfInt(n), 0)

\* The position of the highest bit of a finite value.
Top(x) == BitLen(x.m) + x.e

\* -1, 0 or 1 as x < y, x = y or x > y, for finite x and y.
FinCmp(x, y) ==
    IF x.m = << >> \/ y.m = << >>
    THEN IF x.m = y.m THEN 0 ELSE IF x.m = << >> THEN -1 ELSE 1
    ELSE IF Top(x) # Top(y) THEN (IF Top(x) < Top(y) THEN -1 ELSE 1)
    ELSE LET lo == IF x.e < y.e THEN x.e ELSE y.e IN
         BigCmp(BigShl(x.m, x.e - lo), BigShl(y.m, y.e - lo))

\* x > y on floats: every comparison with NaN is false.
FloatGT(x, y) ==
    /\ ~IsNaN(x) /\ ~IsNaN(y) /\ ~IsInf(y)
    /\ (IsInf(x) \/ FinCmp(x, y) > 0)

\* x >= y on floats.
FloatGE(x, y) ==
    /\ ~IsNaN(x) /\ ~IsNaN(y)
    /\ (IsInf(x) \/ (~IsInf(y) /\ FinCmp(x, y) >= 0))

\* x < y on floats.
FloatLT(x, y) == FloatGT(y, x)

\* x + y on floats; a term below a quarter of the other's last place is
\* rounded away.
FloatAdd(x, y) ==
    IF IsNaN(x) \/ IsNaN(y) THEN NaN
    ELSE IF IsInf(x) \/ IsInf(y) THEN Inf
    ELSE IF IsZero(x) THEN y
    ELSE IF IsZero(y) THEN x
    ELSE IF Top(x) - Top(y) > MANT_BITS + 2 THEN x
    ELSE IF Top(y) - Top(x) > MANT_BITS + 2 THEN y
    ELSE LET lo == IF x.e < y.e THEN x.e ELSE y.e IN
         Round(BigAdd(BigShl(x.m, x.e - lo), BigShl(y.m, y.e - lo)), lo, FALSE)

\* x * y on floats.
FloatMul(x, y) ==
    IF IsNaN(x) \/ IsNaN(y) THEN NaN
    ELSE IF IsInf(x) \/ IsInf(y)
         THEN IF IsZero(x) \/ IsZero(y) THEN NaN ELSE Inf
    ELSE Round(BigMul(x.m, y.m), x.e + y.e, FALSE)

\* x / y on numpy floats: division by zero gives inf, or nan for 0 / 0.
FloatDiv(x, y) ==
    IF IsNaN(x) \/ IsNaN(y) THEN NaN
    ELSE IF IsInf(x) THEN (IF IsInf(y) THEN NaN ELSE Inf)
    ELSE IF IsInf(y) THEN Zero
    ELSE IF IsZero(y) THEN (IF IsZero(x) THEN NaN ELSE Inf)
    ELSE IF IsZero(x) THEN Zero
    ELSE LET s == Max(0, MANT_BITS + 3 + BitLen(y.m) - BitLen(x.m))
             d == BigDivMod(BigShl(x.m, s), y.m)
         IN Round(d.q, x.e - y.e - s, d.r # << >>)

\* numpy's pairwise summation of a float64 array (the inner loop of
\* add.reduce): a plain loop below 8 elements, 8 running sums up to
\* PW_BLOCKSIZE elements, two halves beyond.
UNROLL == 8
PW_BLOCKSIZE == 128

\* res += a[i] for i in from .. to
RECURSIVE SumLoop(_, _, _, _)
SumLoop(a, from, to, res) ==
    IF from > to THEN res
    ELSE SumLoop(a, from + 1, to, FloatAdd(res, a[from]))

\* r[j] + a[i + j - 1] for j in j .. UNROLL
RECURSIVE AddBlock(_, _, _, _)
AddBlock(r, a, i, j) ==
    IF j > UNROLL THEN << >>
    ELSE <<FloatAdd(r[j], a[i + j - 1])>> \o AddBlock(r, a, i, j + 1)

\* r[j] += a[i + j] for every whole block of 8 from index i up to index stop.
RECURSIVE SumBlocks(_, _, _, _)
SumBlocks(a, i, stop, r) ==
    IF i + UNROLL - 1 > stop THEN r
    ELSE SumBlocks(a, i + UNROLL, stop, AddBlock(r, a, i, 1))

\* ((r[0] + r[1]) + (r[2] + r[3])) + ((r[4] + r[5]) + (r[6] + r[7])), for the
\* running sums first .. last.
RECURSIVE SumHalves(_, _, _)
SumHalves(r, first, last) ==
    IF first = last THEN r[first]
    ELSE LET h == (first + last) \div 2 IN
         FloatAdd(SumHalves(r, first, h), SumHalves(r, h + 1, last))

RECURSIVE pairwise_sum(_)
pairwise_sum(a) ==
    LET n == Len(a) IN
    IF n < UNROLL THEN SumLoop(a, 1, n, Zero)
    ELSE IF n <= PW_BLOCKSIZE
    THEN LET whole == n - (n % UNROLL)
             r == SumBlocks(a, UNROLL + 1, whole, SubSeq(a, 1, UNROLL))
         IN SumLoop(a, whole + 1, n, SumHalves(r, 1, UNROLL))
    ELSE LET h == n \div 2
             n2 == h - (h % UNROLL)
         IN FloatAdd(pairwise_sum(SubSeq(a, 1, n2)),
                     pairwise_sum(SubSeq(a, n2 + 1, n)))

\* np.sum of a one-dimensional float64 array: add.reduce, which starts from
\* the identity 0; adding it changes no value.
SeqSum(s) == pairwise_sum(s)

\* np.mean of a one-dimensional array or list: the sum divided by the
\* count, NaN (0 / 0) for an empty one.
np_mean(s) == FloatDiv(SeqSum(s), Float(Len(s)))

\* ------------------------------------------------------------- the frames

\* The frames the callback is fed, by name: the frame length len(samples) and
\* the magnitude spectrum fft[0 .. len \div 2].
FrameNames == {"quiet", "loud", "degenerate"}

\* Frames whose bass energies are 1, 2 and 9/5: a run of them has a recent
\* average whose product with 1.5 is rounded.
FineFrames == {"one", "two", "soft"}

AllFrames == FrameNames \cup FineFrames

FrameOf(name) ==
    CASE name = "quiet" ->
           [len |-> BLOCKSIZE, fft |-> [k \in 0..(BLOCKSIZE \div 2) |-> 10]]
      [] name = "loud" ->
           [len |-> BLOCKSIZE,
            fft |-> [k \in 0..(BLOCKSIZE \div 2) |->
                        IF k < 6 THEN 30 ELSE IF k < 50 THEN 20 ELSE 10]]
      [] name = "degenerate" ->
           [len |-> 8, fft |-> [k \in 0..4 |-> 10]]
      [] name = "one" ->
           [len |-> BLOCKSIZE, fft |-> [k \in 0..(BLOCKSIZE \div 2) |-> 1]]
      [] name = "two" ->
           [len |-> BLOCKSIZE, fft |-> [k \in 0..(BLOCKSIZE \div 2) |-> 2]]
      [] name = "soft" ->
           [len |-> BLOCKSIZE,
            fft |-> [k \in 0..(BLOCKSIZE \div 2) |-> IF k < 5 THEN 2 ELSE 1]]

\* The sample spacing 1/44100 passed to rfftfreq (line 33).
SampleSpacing == FloatDiv(Float(1), Float(SAMPLE_RATE))

\* np.fft.rfftfreq(n, 1/44100): val = 1.0 / (n * d), then
\* arange(0, n // 2 + 1) * val.
rfftfreq(n) ==
    LET val == FloatDiv(Float(1), FloatMul(Float(n), SampleSpacing)) IN
    [k \in 0..(n \div 2) |-> FloatMul(Float(k), val)]

\* Faulty variant of BandBins: the mask is (freqs < hi) alone.
BandBinsBelow(n, lo, hi) ==
    LET freqs == rfftfreq(n)
        fhi == Float(hi)
    IN {k \in 0..(n \div 2) : FloatLT(freqs[k], fhi)}

\* The bins selected by the mask (freqs >= lo) & (freqs < hi).
BandBins(n, lo, hi) ==
    LET freqs == rfftfreq(n)
        flo == Float(lo)
        fhi == Float(hi)
    IN {k \in 0..(n \div 2) :
           LET f == freqs[k] IN FloatGE(f, flo) /\ FloatLT(f, fhi)}

\* fft[mask] restricted to bins first..last, by halves.
RECURSIVE Masked(_, _, _, _)
Masked(fft, bins, first, last) ==
    IF first > last THEN << >>
    ELSE IF first = last
         THEN IF first \in bins THEN <<Float(fft[first])>> ELSE << >>
    ELSE LET h == (first + last) \div 2 IN
         Masked(fft, bins, first, h) \o Masked(fft, bins, h + 1, last)

BandEnergy(f, lo, hi) ==
    np_mean(Masked(f.fft, BandBins(f.len, lo, hi), 0, f.len \div 2))

\* Lines 35-37: the edges of the three bands.
BandEdges ==
    [bass   |-> <<BASS_LO, BASS_HI>>,
     mid    |-> <<BASS_HI, MID_HI>>,
     treble |-> <<MID_HI, TREBLE_HI>>]

\* Lines 31-37: the three band energies of a frame.
Energies(f) ==
    [b \in DOMAIN BandEdges |-> BandEnergy(f, BandEdges[b][1], BandEdges[b][2])]

\* Lines 31-37, per frame name: the three band energies.
Bands == [name \in AllFrames |-> Energies(FrameOf(name))]

\* ------------------------------------------------------------------ deque

\* list(d)[:-1]
AllButLast(s) == SubSeq(s, 1, Len(s) - 1)

\* d[-1]
Last(s) == s[Len(s)]

\* Faulty variants of DequeAppend: no capacity; no capacity for the history
\* buffers (maxlen left out at lines 16-19); appendleft for append; a full
\* deque that drops the new entry instead of the oldest.
DequeAppendUnbounded(d, x, m) == Append(d, x)
DequeAppendHistoryUnbounded(d, x, m) ==
    IF Len(d) >= m /\ m # HISTORY_MAXLEN THEN Append(Tail(d), x) ELSE Append(d, x)
DequeAppendLeft(d, x, m) ==
    IF Len(d) >= m THEN <<x>> \o AllButLast(d) ELSE <<x>> \o d
DequeAppendDropNew(d, x, m) ==
    IF Len(d) >= m THEN d ELSE Append(d, x)

\* deque(maxlen=m).append(x): the oldest entry is dropped when full.
DequeAppend(d, x, m) ==
    IF Len(d) >= m THEN Append(Tail(d), x) ELSE Append(d, x)


\* ---------------------------------------------------------- beat detector

\* The float 1.5 (line 50).
OneAndHalf == FloatDiv(Float(3), Float(2))

\* Faulty variant of RecentAvg: the current value included in the average.
RecentAvgInclusive(window) == np_mean(window)

\* Line 47: the average of the window excluding the current value.
RecentAvg(window) == np_mean(AllButLast(window))

\* Faulty variants of BeatFires: the cooldown test left out; the threshold test
\* alone; the cooldown compared with > for >=.
BeatFiresNoCooldown(b, window, counter, last) ==
    /\ Len(window) >= MIN_HISTORY
    /\ FloatGT(b, FloatMul(RecentAvg(window), OneAndHalf))
BeatFiresUnguarded(b, window, counter, last) ==
    FloatGT(b, FloatMul(RecentAvg(window), OneAndHalf))
BeatFiresStrict(b, window, counter, last) ==
    /\ Len(window) >= MIN_HISTORY
    /\ FloatGT(b, FloatMul(RecentAvg(window), OneAndHalf))
    /\ counter - last > BEAT_COOLDOWN

\* Lines 46-50: whether the call whose bass is b fires a beat, given the
\* window after line 41, the counter after line 42 and last_beat_sample.
BeatFires(b, window, counter, last) ==
    /\ Len(window) >= MIN_HISTORY
    /\ FloatGT(b, FloatMul(RecentAvg(window), OneAndHalf))
    /\ counter - last >= BEAT_COOLDOWN

\* ------------------------------------------------------------------ state

VARIABLES
    data_lock,         \* line 15: "free", or the thread holding it
    bass_history,      \* line 16
    mid_history,       \* line 17
    treble_history,    \* line 18
    beat_flags,        \* line 19
    recent_bass,       \* line 20
    sample_counter,    \* line 21
    last_beat_sample,  \* line 22
    ppc,               \* where the audio thread is in analyze_audio
    indata,            \* analyze_audio: the frame of the current call (by name)
    bass, mid, treble, \* analyze_audio: locals of lines 35-37
    beat,              \* analyze_audio: local of lines 45-51
    cpc,               \* where the animation thread is in update_plot
    bass_data, mid_data, treble_data, beats,   \* update_plot: lines 66-69
    script,            \* the frames a scripted run feeds, repeated; << >> when free
    plots,             \* update_plot calls made so far
    appended,          \* history: the entries appended so far, one per frame
    fired,             \* history: the sample indices at which a beat fired
    lastCall,          \* history: the values of the latest call to pass line 52
    snapEnd,           \* history: frames appended when the current snapshot began
    prevEnd,           \* history: snapEnd of the previous update_plot call
    raised             \* history: whether a call of analyze_audio has raised

shared == <<bass_history, mid_history, treble_history, beat_flags>>
detector == <<recent_bass, sample_counter, last_beat_sample>>
plocals == <<indata, bass, mid, treble, beat>>
clocals == <<bass_data, mid_data, treble_data, beats>>
vars == <<data_lock, shared, detector, ppc, plocals, cpc, clocals,
          script, plots, appended, fired, lastCall, snapEnd, prevEnd, raised>>

NoCall == [bass |-> Zero, mid |-> Zero, treble |-> Zero, beat |-> FALSE]

\* All sequences over S of length 1..n.
RECURSIVE SeqsUpTo(_, _)
SeqsUpTo(S, n) ==
    IF n = 0 THEN {}
    ELSE SeqsUpTo(S, n - 1) \cup [1..n -> S]

\* Scripted runs: one loud frame every p-th call, the others quiet ...
Periods == {3, 5, 6, 7, 16}
Every(p) == [i \in 1..p |-> IF i = p THEN "loud" ELSE "quiet"]
\* ... or two loud frames in a row every p calls.
Bursts == {16, 17}
Burst(p) == [i \in 1..p |-> IF i >= p - 1 THEN "loud" ELSE "quiet"]

\* ... or bass energies 2, 2, 2, then 1 twelve times, then 9/5, which is 1.5
\* times the average 6/5 of the fifteen before it.
Rounding ==
    [i \in 1..16 |-> IF i <= 3 THEN "two" ELSE IF i <= 15 THEN "one" ELSE "soft"]

Scripts ==
    SeqsUpTo(FrameNames, PatLen)
        \cup {Every(p) : p \in Periods} \cup {Burst(p) : p \in Bursts}
        \cup {Rounding}

\* The module-level state after import (lines 15-23), no callback running.
Start ==
    /\ data_lock = "free"
    /\ bass_history = << >> /\ mid_history = << >>
    /\ treble_history = << >> /\ beat_flags = << >>
    /\ recent_bass = << >>
    /\ sample_counter = 0
    /\ last_beat_sample = InitLastBeat
    /\ ppc = "idle" /\ indata = "none"
    /\ bass = Zero /\ mid = Zero /\ treble = Zero /\ beat = 0
    /\ cpc = "idle"
    /\ bass_data = << >> /\ mid_data = << >> /\ treble_data = << >> /\ beats = << >>
    /\ plots = 0
    /\ appended = << >> /\ fired = << >> /\ lastCall = NoCall
    /\ snapEnd = 0 /\ prevEnd = 0
    /\ raised = FALSE

\* Frames are chosen freely, call by call.
Init == Start /\ script = << >>

\* The frames follow a repeating pattern chosen at the start.
InitRun == Start /\ script \in Scripts

\* ---------------------------------------------------------- the data lock

\* Faulty variant of CanAcquire: the with block entered without the lock.
CanAcquireAlways(lock) == TRUE

\* `with data_lock:` blocks until the lock is free (lines 40 and 65).
CanAcquire(lock) == lock = "free"

\* -------------------------------------------- analyze_audio (audio thread)

\* The frame source may call now with frame f.
MayCall(f) ==
    IF script = << >>
    THEN f \in FrameNames /\ sample_counter < MaxCalls
    ELSE /\ sample_counter < RunLen
         /\ f = script[(sample_counter % Len(script)) + 1]

\* Lines 25-37: the callback is entered with a frame and computes the three
\* band energies, touching no shared state; it then waits at line 40.
Call ==
    /\ ppc = "idle"
    /\ \E f \in AllFrames :
          /\ MayCall(f)
          /\ indata' = f
          /\ LET e == Bands[f] IN
                /\ bass' = e.bass
                /\ mid' = e.mid
                /\ treble' = e.treble
    /\ ppc' = "lock"
    /\ UNCHANGED <<data_lock, shared, detector, beat, cpc, clocals, script, plots,
                   appended, fired, lastCall, snapEnd, prevEnd, raised>>

\* Line 40: enter the with block.
Acquire ==
    /\ ppc = "lock"
    /\ CanAcquire(data_lock)
    /\ data_lock' = "producer"
    /\ ppc' = "detect"
    /\ UNCHANGED <<shared, detector, plocals, cpc, clocals, script, plots,
                   appended, fired, lastCall, snapEnd, prevEnd, raised>>

\* Lines 41-52: record the bass value, count the sample, decide the beat.
\* These statements touch only state no other thread reads or writes.
Detect ==
    /\ ppc = "detect"
    /\ LET window == DequeAppend(recent_bass, bass, RECENT_MAXLEN)
           counter == sample_counter + 1
           fires == BeatFires(bass, window, counter, last_beat_sample)
       IN /\ recent_bass' = window
          /\ sample_counter' = counter
          /\ beat' = IF fires THEN 1 ELSE 0
          /\ last_beat_sample' = IF fires THEN counter ELSE last_beat_sample
          /\ fired' = IF fires THEN Append(fired, counter) ELSE fired
          /\ lastCall' = [bass |-> bass, mid |-> mid, treble |-> treble,
                          beat |-> fires]
    /\ ppc' = "append_bass"
    /\ UNCHANGED <<data_lock, shared, indata, bass, mid, treble, cpc, clocals,
                   script, plots, appended, snapEnd, prevEnd, raised>>

\* Line 55.
AppendBass ==
    /\ ppc = "append_bass"
    /\ bass_history' = DequeAppend(bass_history, bass, HISTORY_MAXLEN)
    /\ ppc' = "append_mid"
    /\ UNCHANGED <<data_lock, mid_history, treble_history, beat_flags, detector,
                   plocals, cpc, clocals, script, plots, appended, fired, lastCall,
                   snapEnd, prevEnd, raised>>

\* Line 56.
AppendMid ==
    /\ ppc = "append_mid"
    /\ mid_history' = DequeAppend(mid_history, mid, HISTORY_MAXLEN)
    /\ ppc' = "append_treble"
    /\ UNCHANGED <<data_lock, bass_history, treble_history, beat_flags, detector,
                   plocals, cpc, clocals, script, plots, appended, fired, lastCall,
                   snapEnd, prevEnd, raised>>

\* Line 57.
AppendTreble ==
    /\ ppc = "append_treble"
    /\ treble_history' = DequeAppend(treble_history, treble, HISTORY_MAXLEN)
    /\ ppc' = "append_beat"
    /\ UNCHANGED <<data_lock, bass_history, mid_history, beat_flags, detector,
                   plocals, cpc, clocals, script, plots, appended, fired, lastCall,
                   snapEnd, prevEnd, raised>>

\* Line 58: the frame is now in all four buffers.
AppendBeat ==
    /\ ppc = "append_beat"
    /\ beat_flags' = DequeAppend(beat_flags, beat = 1, HISTORY_MAXLEN)
    /\ appended' = Append(appended, [bass |-> bass, mid |-> mid,
                                     treble |-> treble, beat |-> (beat = 1)])
    /\ ppc' = "release"
    /\ UNCHANGED <<data_lock, bass_history, mid_history, treble_history, detector,
                   plocals, cpc, clocals, script, plots, fired, lastCall,
                   snapEnd, prevEnd, raised>>

\* Faulty variant of Release: the block is left with the lock still held.
ReleaseKeepsLock ==
    /\ ppc = "release"
    /\ ppc' = "report"
    /\ UNCHANGED <<data_lock, shared, detector, plocals, cpc, clocals, script,
                   plots, appended, fired, lastCall, snapEnd, prevEnd, raised>>

\* End of the with block of line 40.
Release ==
    /\ ppc = "release"
    /\ data_lock' = "free"
    /\ ppc' = "report"
    /\ UNCHANGED <<shared, detector, plocals, cpc, clocals, script, plots,
                   appended, fired, lastCall, snapEnd, prevEnd, raised>>

\* Lines 60-62: int(x) raises ValueError when x is NaN and OverflowError
\* when it is inf.  Either way the call is over and its locals are gone.
Report ==
    /\ ppc = "report"
    /\ raised' = (raised \/ bass.k # "fin" \/ mid.k # "fin" \/ treble.k # "fin")
    /\ ppc' = "idle"
    /\ indata' = "none"
    /\ bass' = Zero /\ mid' = Zero /\ treble' = Zero /\ beat' = 0
    /\ UNCHANGED <<data_lock, shared, detector, cpc, clocals, script, plots,
                   appended, fired, lastCall, snapEnd, prevEnd>>

\* ------------------------------------------ update_plot (animation thread)

\* The animation may call update_plot now.  In a scripted run it is scheduled
\* near the end of the run only.
MayPlot ==
    /\ plots < MaxPlots
    /\ script # << >> => sample_counter + PlotLead >= RunLen

\* Line 64: update_plot is called; it then waits at line 65.
PlotCall ==
    /\ cpc = "idle"
    /\ MayPlot
    /\ plots' = plots + 1
    /\ cpc' = "lock"
    /\ UNCHANGED <<data_lock, shared, detector, ppc, plocals, clocals, script,
                   appended, fired, lastCall, snapEnd, prevEnd, raised>>

\* Line 65: enter the with block.
PlotAcquire ==
    /\ cpc = "lock"
    /\ CanAcquire(data_lock)
    /\ data_lock' = "consumer"
    /\ snapEnd' = Len(appended)
    /\ cpc' = "copy_bass"
    /\ UNCHANGED <<shared, detector, ppc, plocals, clocals, script, plots,
                   appended, fired, lastCall, prevEnd, raised>>

\* Faulty variant of CopyBass: the buffer is drained by the copy.
CopyBassDrains ==
    /\ cpc = "copy_bass"
    /\ bass_data' = bass_history
    /\ bass_history' = << >>
    /\ cpc' = "copy_mid"
    /\ UNCHANGED <<data_lock, mid_history, treble_history, beat_flags, detector,
                   ppc, plocals, mid_data, treble_data, beats, script, plots,
                   appended, fired, lastCall, snapEnd, prevEnd, raised>>

\* Line 66.
CopyBass ==
    /\ cpc = "copy_bass"
    /\ bass_data' = bass_history
    /\ cpc' = "copy_mid"
    /\ UNCHANGED <<data_lock, shared, detector, ppc, plocals, mid_data, treble_data,
                   beats, script, plots, appended, fired, lastCall, snapEnd,
                   prevEnd, raised>>

\* Line 67.
CopyMid ==
    /\ cpc = "copy_mid"
    /\ mid_data' = mid_history
    /\ cpc' = "copy_treble"
    /\ UNCHANGED <<data_lock, shared, detector, ppc, plocals, bass_data, treble_data,
                   beats, script, plots, appended, fired, lastCall, snapEnd,
                   prevEnd, raised>>

\* Line 68.
CopyTreble ==
    /\ cpc = "copy_treble"
    /\ treble_data' = treble_history
    /\ cpc' = "copy_beats"
    /\ UNCHANGED <<data_lock, shared, detector, ppc, plocals, bass_data, mid_data,
                   beats, script, plots, appended, fired, lastCall, snapEnd,
                   prevEnd, raised>>

\* Line 69.
CopyBeats ==
    /\ cpc = "copy_beats"
    /\ beats' = beat_flags
    /\ cpc' = "plot_release"
    /\ UNCHANGED <<data_lock, shared, detector, ppc, plocals, bass_data, mid_data,
                   treble_data, script, plots, appended, fired, lastCall, snapEnd,
                   prevEnd, raised>>

\* End of the with block of line 65.
PlotRelease ==
    /\ cpc = "plot_release"
    /\ data_lock' = "free"
    /\ cpc' = "render"
    /\ UNCHANGED <<shared, detector, ppc, plocals, clocals, script, plots,
                   appended, fired, lastCall, snapEnd, prevEnd, raised>>

\* Lines 71-101: drawing reads the four copies only; the call then returns
\* and its locals are gone.
Render ==
    /\ cpc = "render"
    /\ cpc' = "idle"
    /\ bass_data' = << >> /\ mid_data' = << >>
    /\ treble_data' = << >> /\ beats' = << >>
    /\ prevEnd' = snapEnd
    /\ UNCHANGED <<data_lock, shared, detector, ppc, plocals, script, plots,
                   appended, fired, lastCall, snapEnd, raised>>

\* ------------------------------------------- the band energies on their own

\* Frames for analysing lines 31-37 on their own.  The stream is opened with
\* blocksize 1024 (line 161), so every frame has BLOCKSIZE samples and bin k
\* has the frequency k x 44100 / 1024 Hz: the bass bins are 1..5, the mid
\* bins 6..92 and the treble bins 93..371.  The magnitude spectrum of a test
\* frame is hi below bin cut and lo from it on; the cuts lie on both sides of
\* every band edge and inside a band.
TestCuts == {0, 1, 5, 6, 41, 92, 93, 94, 371, 372, 373}
TestLevels == (0..MaxLevel) \X (0..MaxLevel)
TestFrames ==
    {[len |-> BLOCKSIZE, cut |-> c, hi |-> l[1], lo |-> l[2]] :
        c \in TestCuts, l \in TestLevels}

\* The frame a description stands for.
TestFrame(d) ==
    [len |-> d.len,
     fft |-> [k \in 0..(d.len \div 2) |-> IF k < d.cut THEN d.hi ELSE d.lo]]

\* The module-level state after import, the callback about to be called
\* with one of the test frames.
InitBands ==
    /\ data_lock = "free"
    /\ bass_history = << >> /\ mid_history = << >>
    /\ treble_history = << >> /\ beat_flags = << >>
    /\ recent_bass = << >>
    /\ sample_counter = 0
    /\ last_beat_sample = InitLastBeat
    /\ ppc = "idle" /\ indata \in TestFrames
    /\ bass = Zero /\ mid = Zero /\ treble = Zero /\ beat = 0
    /\ cpc = "idle"
    /\ bass_data = << >> /\ mid_data = << >> /\ treble_data = << >> /\ beats = << >>
    /\ script = << >>
    /\ plots = 0
    /\ appended = << >> /\ fired = << >> /\ lastCall = NoCall
    /\ snapEnd = 0 /\ prevEnd = 0
    /\ raised = FALSE

\* Lines 31-37 on the test frame.
AnalyzeFrame ==
    /\ ppc = "idle"
    /\ LET e == Energies(TestFrame(indata)) IN
          /\ bass' = e.bass
          /\ mid' = e.mid
          /\ treble' = e.treble
    /\ ppc' = "lock"
    /\ UNCHANGED <<data_lock, shared, detector, indata, beat, cpc, clocals, script,
                   plots, appended, fired, lastCall, snapEnd, prevEnd, raised>>

NextBands == AnalyzeFrame

SpecBands == InitBands /\ [][NextBands]_vars

\* ----------------------------------------------------------- specification

Next ==
    \/ Call \/ Acquire \/ Detect
    \/ AppendBass \/ AppendMid \/ AppendTreble \/ AppendBeat
    \/ Release \/ Report
    \/ PlotCall \/ PlotAcquire \/ CopyBass \/ CopyMid \/ CopyTreble \/ CopyBeats
    \/ PlotRelease \/ Render

Spec == Init /\ [][Next]_vars

SpecRun == InitRun /\ [][Next]_vars

\* A thread that can take a step of its callback other than entering a with
\* block eventually takes it.
ProducerRuns ==
    \/ Detect \/ AppendBass \/ AppendMid \/ AppendTreble \/ AppendBeat
    \/ Release \/ Report
ConsumerRuns ==
    \/ CopyBass \/ CopyMid \/ CopyTreble \/ CopyBeats \/ PlotRelease \/ Render

\* Fair scheduling of the two threads: each keeps running, and a thread that
\* waits for a lock that stays free gets it.  threading.Lock keeps no queue
\* of waiters: a thread that finds the lock free only now and then, because
\* the other thread takes it again each time, is promised nothing.  The
\* callers are free to stop calling either callback.
Fairness ==
    /\ WF_vars(ProducerRuns)
    /\ WF_vars(ConsumerRuns)
    /\ WF_vars(Acquire)
    /\ WF_vars(PlotAcquire)

\* The program under fair scheduling, with at most FairCalls calls of
\* analyze_audio.  The animation of line 108 calls update_plot again after
\* every return, without end; these calls are not counted in plots.
CallFair == sample_counter < FairCalls /\ Call
PlotCallFair ==
    /\ cpc = "idle"
    /\ cpc' = "lock"
    /\ UNCHANGED <<data_lock, shared, detector, ppc, plocals, clocals, script,
                   plots, appended, fired, lastCall, snapEnd, prevEnd, raised>>

NextFair ==
    \/ CallFair \/ Acquire \/ Detect
    \/ AppendBass \/ AppendMid \/ AppendTreble \/ AppendBeat
    \/ Release \/ Report
    \/ PlotCallFair \/ PlotAcquire \/ CopyBass \/ CopyMid \/ CopyTreble
    \/ CopyBeats \/ PlotRelease \/ Render

SpecFair == Init /\ [][NextFair]_vars /\ Fairness

\* ------------------------------------------------------------------ claims

Min(a, b) == IF a < b THEN a ELSE b

\* The audio thread has passed line 52 of the current call: bass and beat are
\* this call's values.
Detected == ppc \in {"append_bass", "append_mid", "append_treble", "append_beat",
                     "release", "report"}

\* The audio thread is not between lines 55 and 58: every frame is in all four
\* buffers or in none.
Settled == ppc \notin {"append_mid", "append_treble", "append_beat"}

\* update_plot has made its four copies and has not returned.
Copied == cpc \in {"plot_release", "render"}

\* The i-th entry of the four copies of update_plot, as one frame.
SnapEntry(i) == [bass |-> bass_data[i], mid |-> mid_data[i],
                 treble |-> treble_data[i], beat |-> beats[i]]

\* The i-th entry of the four history buffers, as one frame.
HistEntry(i) == [bass |-> bass_history[i], mid |-> mid_history[i],
                 treble |-> treble_history[i], beat |-> beat_flags[i]]

\* b > avg * 1.5 for the average avg of the values in prev, as the floats
\* compare.
Exceeds(b, prev) ==
    /\ Len(prev) > 0
    /\ FloatLT(FloatMul(np_mean(prev), OneAndHalf), b)

\* C1: any two consecutive firing calls are at least BEAT_COOLDOWN samples
\* apart, in runs longer than the history capacity too: in the record of the
\* firing sample indices, and hence between any two true flags held in
\* beat_flags; a call right after a firing call does not fire.
C1_Cooldown ==
    /\ \A i \in 1..(Len(fired) - 1) : fired[i + 1] - fired[i] >= BEAT_COOLDOWN
    /\ \A i \in 1..Len(beat_flags) :
          beat_flags[i] =>
              \A j \in (i + 1)..Min(i + BEAT_COOLDOWN - 1, Len(beat_flags)) :
                  ~beat_flags[j]
    /\ (Detected /\ Len(fired) > 0 /\ sample_counter = Last(fired) + 1) => beat = 0

\* C1 witness: beyond the history capacity, the call right after a firing call
\* exceeds 1.5 x the recent average and does not fire.
C1_Witness ==
    /\ ppc = "append_bass"
    /\ sample_counter > HISTORY_MAXLEN
    /\ Len(fired) >= 2
    /\ last_beat_sample = sample_counter - 1
    /\ Exceeds(bass, AllButLast(recent_bass))
    /\ beat = 0

\* C2: none of the first 4 calls fires, whatever the frames; each of them
\* records its bass value in the recent window and appends a false flag.
C2_ColdStart ==
    /\ \A i \in 1..Len(fired) : fired[i] > 4
    /\ sample_counter <= 4 =>
          /\ Len(recent_bass) = sample_counter
          /\ Detected => (Last(recent_bass) = bass /\ beat = 0)
          /\ ppc \in {"release", "report"} =>
                (Len(beat_flags) = sample_counter /\ Last(beat_flags) = FALSE)
    /\ sample_counter <= HISTORY_MAXLEN =>
          \A i \in 1..Len(beat_flags) : i <= 4 => beat_flags[i] = FALSE

\* C2 witness: the 4th call has a bass above 1.5 x the average of the three
\* before it, has recorded it and has appended a false flag.
C2_Witness ==
    /\ ppc = "release"
    /\ sample_counter = 4
    /\ Exceeds(bass, AllButLast(recent_bass))
    /\ Last(recent_bass) = bass
    /\ Len(beat_flags) = 4 /\ Last(beat_flags) = FALSE

\* C3 as stated: after the frames with bass 10,10,10,10,10,30 the 6th call
\* has fired a beat and last_beat_sample is 6.
C3_ScenarioB ==
    (/\ Detected
     /\ sample_counter = 6
     /\ recent_bass = <<Float(10), Float(10), Float(10), Float(10),
                        Float(10), Float(30)>>)
        => (beat = 1 /\ last_beat_sample = 6)

\* C4 as stated: while no beat has fired and the window holds at least 5
\* entries, the gap computed on line 48 is at least BEAT_COOLDOWN.
C4_SentinelGap ==
    (/\ ppc = "append_bass"
     /\ fired = << >>
     /\ Len(recent_bass) >= MIN_HISTORY)
        => sample_counter - last_beat_sample >= BEAT_COOLDOWN

\* C5: on every call that leaves at least 5 entries in the window, the beat
\* flag is set iff bass > recentAvg x 1.5 and the gap from last_beat_sample to
\* the incremented counter is at least 15; last_beat_sample becomes the
\* counter when the flag is set and is unchanged otherwise.
C5_Step ==
    (ppc = "detect" /\ ppc' = "append_bass" /\ Len(recent_bass') >= 5) =>
        /\ (beat' = 1) <=>
              (/\ Exceeds(bass, AllButLast(recent_bass'))
               /\ sample_counter' - last_beat_sample >= 15)
        /\ beat' \in {0, 1}
        /\ beat' = 1 => last_beat_sample' = sample_counter'
        /\ beat' = 0 => last_beat_sample' = last_beat_sample
\* C5: every step of the program satisfies the beat rule stated in C5_Step.
C5_FiresIff == [][C5_Step]_vars

\* C5 witness: a call has just fired at exactly BEAT_COOLDOWN samples after
\* the previous beat.
C5_Witness ==
    /\ ppc = "append_bass"
    /\ beat = 1
    /\ Len(fired) >= 2
    /\ fired[Len(fired)] - fired[Len(fired) - 1] = BEAT_COOLDOWN
    /\ last_beat_sample = sample_counter

\* C6: the four history buffers never hold more than HISTORY_MAXLEN entries;
\* whenever no append is half done they hold the latest
\* Min(n, HISTORY_MAXLEN) of the n frames appended, in arrival order, so
\* exactly HISTORY_MAXLEN once n exceeds it; after 250 appends the first
\* entry is the one of call 51.
C6_Bounded ==
    /\ Len(bass_history) <= HISTORY_MAXLEN
    /\ Len(mid_history) <= HISTORY_MAXLEN
    /\ Len(treble_history) <= HISTORY_MAXLEN
    /\ Len(beat_flags) <= HISTORY_MAXLEN
    /\ Settled =>
          LET n == Len(appended)
              c == Min(n, HISTORY_MAXLEN)
          IN /\ Len(bass_history) = c /\ Len(mid_history) = c
             /\ Len(treble_history) = c /\ Len(beat_flags) = c
             /\ \A i \in 1..c : HistEntry(i) = appended[n - c + i]
             /\ n = 250 => HistEntry(1) = appended[51]

\* C6 witness: 250 frames appended, 200 held.
C6_Witness ==
    /\ ppc = "idle"
    /\ Len(appended) = 250
    /\ Len(bass_history) = HISTORY_MAXLEN
    /\ appended[50] # appended[51]

\* C7: the four lists copied by one update_plot call have the same length,
\* and index by index they are the entries of one run of appended frames.
C7_Aligned ==
    Copied =>
        /\ Len(mid_data) = Len(bass_data)
        /\ Len(treble_data) = Len(bass_data)
        /\ Len(beats) = Len(bass_data)
        /\ \E k \in 0..Len(appended) :
              /\ k + Len(bass_data) <= Len(appended)
              /\ \A i \in 1..Len(bass_data) : SnapEntry(i) = appended[k + i]

\* C7 witness: a snapshot of differing frames taken while the audio thread
\* waits at line 40 with the next frame.
C7_Witness ==
    /\ cpc = "plot_release"
    /\ ppc = "lock"
    /\ Len(bass_data) >= 2
    /\ SnapEntry(1) # SnapEntry(2)

\* C8: a snapshot taken once a call of analyze_audio has left its with block
\* has four lists of the same length whose last entries are the bass, mid,
\* treble and beat flag of the latest call.
C8_LastIsLatest ==
    (cpc = "plot_release" /\ sample_counter >= 1) =>
        /\ Len(bass_data) >= 1
        /\ Len(mid_data) = Len(bass_data)
        /\ Len(treble_data) = Len(bass_data)
        /\ Len(beats) = Len(bass_data)
        /\ SnapEntry(Len(bass_data)) = lastCall

\* C8 witness: a snapshot between two calls, the latest call's frame
\* differing from the one before.
C8_Witness ==
    /\ cpc = "plot_release"
    /\ ppc = "idle"
    /\ Len(bass_data) >= 2
    /\ SnapEntry(Len(bass_data)) # SnapEntry(Len(bass_data) - 1)

\* C9: a snapshot is the run of the latest Min(n, HISTORY_MAXLEN) appended
\* frames in append order, n being the number of frames fully appended when
\* it was taken, and it does not end before the previous snapshot did.
C9_Contiguous ==
    Copied =>
        LET c == Min(snapEnd, HISTORY_MAXLEN) IN
        /\ Len(bass_data) = c /\ Len(mid_data) = c
        /\ Len(treble_data) = c /\ Len(beats) = c
        /\ \A i \in 1..c : SnapEntry(i) = appended[snapEnd - c + i]
        /\ cpc = "plot_release" => snapEnd = Len(appended)
        /\ snapEnd >= prevEnd

\* C9 witness: a second snapshot, taken after further appends to full
\* buffers.
C9_Witness ==
    /\ cpc = "plot_release"
    /\ plots >= 2
    /\ prevEnd > HISTORY_MAXLEN
    /\ snapEnd > prevEnd
    /\ SnapEntry(1) # SnapEntry(2)

\* C10 as stated: a call whose frame has no bin in the bass, mid or treble
\* range records 0 for that band, and no call raises.
C10_DegenerateZero ==
    /\ ~raised
    /\ ppc \in {"release", "report"} =>
          LET n == FrameOf(indata).len
              e == HistEntry(Len(bass_history))
          IN /\ BandBins(n, BASS_LO, BASS_HI) = {} => e.bass = Zero
             /\ BandBins(n, BASS_HI, MID_HI) = {} => e.mid = Zero
             /\ BandBins(n, MID_HI, TREBLE_HI) = {} => e.treble = Zero

\* The audio thread is inside the with block of line 40.
InProducerSection == ppc \in {"detect", "append_bass", "append_mid",
                              "append_treble", "append_beat", "release"}

\* The animation thread is inside the with block of line 65.
InConsumerSection == cpc \in {"copy_bass", "copy_mid", "copy_treble",
                              "copy_beats", "plot_release"}

\* C11 as stated: the beat-detector update (lines 41-52) runs while the audio
\* thread does not hold the data lock.
C11_DetectorUnlocked == ppc = "detect" => data_lock # "producer"

\* C11, amended: the spectral analysis (entered when idle) runs while the
\* audio thread does not hold the lock; the beat-detector update and the four
\* appends run in one critical section, the lock being held by the audio
\* thread exactly from line 41 to line 58.
C11_LockScope ==
    /\ InProducerSection <=> data_lock = "producer"
    /\ ppc \in {"idle", "lock", "report"} => data_lock # "producer"

\* C11 witness: the detector has just been updated and the lock is held.
C11_Witness ==
    /\ ppc = "append_bass"
    /\ data_lock = "producer"
    /\ Last(recent_bass) = bass
    /\ sample_counter >= 2
    /\ Len(bass_history) = sample_counter - 1

\* C12, step part: sample_counter grows by exactly 1 in the one step of a call
\* that executes line 42 and is left alone by every other step.
C12_Step ==
    /\ (ppc = "detect" /\ ppc' = "append_bass") =>
          sample_counter' = sample_counter + 1
    /\ ~(ppc = "detect" /\ ppc' = "append_bass") =>
          sample_counter' = sample_counter

\* C12: the recent window never holds more than RECENT_MAXLEN entries, the
\* oldest being dropped on overflow; sample_counter is the number of calls
\* that have passed line 42, it grows by exactly 1 per call and never
\* decreases or resets, with full history buffers too.
C12_WindowAndCounter ==
    /\ [](/\ Len(recent_bass) <= RECENT_MAXLEN
          /\ sample_counter =
                Len(appended) + (IF Detected /\ ppc \notin {"release", "report"}
                                 THEN 1 ELSE 0)
          /\ (Detected /\ sample_counter > RECENT_MAXLEN) =>
                \A i \in 1..(RECENT_MAXLEN - 1) :
                    recent_bass[i] =
                        appended[sample_counter - RECENT_MAXLEN + i].bass)
    /\ [][C12_Step]_vars

\* C12 witness: a call beyond the history capacity has counted its sample and
\* the window is full.
C12_Witness ==
    /\ ppc = "append_bass"
    /\ sample_counter > HISTORY_MAXLEN
    /\ Len(recent_bass) = RECENT_MAXLEN
    /\ Len(bass_history) = HISTORY_MAXLEN
    /\ recent_bass[1] # recent_bass[2]

\* The bass values of the m calls before call k, oldest first, from the
\* record of appended frames.
PrecedingBass(k, m) == [i \in 1..m |-> appended[k - 1 - m + i].bass]

\* C13: on the k-th call, k >= 5, the recent_avg of line 47 is the mean of the
\* bass values of the Min(k - 1, 19) calls just before it: the value just
\* appended is left out, and so is the value that append evicted.
C13_AvgOfPreceding ==
    (ppc = "append_bass" /\ sample_counter >= MIN_HISTORY) =>
        LET k == sample_counter
            m == Min(k - 1, RECENT_MAXLEN - 1)
        IN /\ Len(appended) = k - 1
           /\ Len(recent_bass) = m + 1
           /\ RecentAvg(recent_bass) = np_mean(PrecedingBass(k, m))

\* C13 witness: a call with a full window whose own bass and whose evicted
\* bass both differ from the average.
C13_Witness ==
    /\ ppc = "append_bass"
    /\ sample_counter > RECENT_MAXLEN
    /\ ~IsNaN(RecentAvg(recent_bass))
    /\ RecentAvg(recent_bass) # bass
    /\ RecentAvg(recent_bass) # appended[sample_counter - RECENT_MAXLEN].bass
    /\ appended[sample_counter - RECENT_MAXLEN].bass # bass

\* C14, step part: the four history buffers change only in a step the audio
\* thread takes with the lock held, and the copies of update_plot are made
\* only in a step the animation thread takes with the lock held.
C14_Step ==
    /\ shared' # shared => (data_lock = "producer" /\ data_lock' = "producer")
    /\ (clocals' # clocals /\ cpc # "render") =>
          (data_lock = "consumer" /\ data_lock' = "consumer")

\* C14: the two threads are never both inside their with blocks; the lock is
\* held by exactly the thread that is inside its block and is free when
\* neither is; the history buffers are written and copied only under it.
C14_MutualExclusion ==
    /\ [](/\ ~(InProducerSection /\ InConsumerSection)
          /\ InProducerSection <=> data_lock = "producer"
          /\ InConsumerSection <=> data_lock = "consumer"
          /\ (~InProducerSection /\ ~InConsumerSection) <=> data_lock = "free")
    /\ [][C14_Step]_vars

\* C14 witness: the animation thread waits at line 65 while the audio thread
\* is between two of its appends.
C14_Witness ==
    /\ ppc = "append_treble"
    /\ cpc = "lock"
    /\ data_lock = "producer"
    /\ Len(bass_history) = Len(treble_history) + 1

C16_Step ==
    /\ cpc' # cpc => UNCHANGED <<shared, detector>>
    /\ ppc' # ppc => UNCHANGED clocals

\* C16: update_plot changes none of the four history buffers, recent_bass,
\* sample_counter and last_beat_sample, and the lists it has copied are not
\* altered by later appends: they stay the frames that were there at the copy.
C16_ReadOnly ==
    /\ [][C16_Step]_vars
    /\ [](Copied =>
            \A i \in 1..Len(bass_data) :
                SnapEntry(i) = appended[snapEnd - Len(bass_data) + i])

\* C16 witness: a frame was appended after the copy, and the copy is as it
\* was.
C16_Witness ==
    /\ cpc = "render"
    /\ Len(bass_data) >= 1
    /\ Len(bass_history) > Len(bass_data)
    /\ ppc = "idle"

\* Bin k of a frame of n samples lies in the band [lo, hi) Hz, in integers.
InBand(n, k, lo, hi) == lo * n <= k * 44100 /\ k * 44100 < hi * n

\* The sum of the magnitudes of the bins of test frame d in [lo, hi) Hz, and
\* their number.
BandCount(d, lo, hi) ==
    Cardinality({k \in 0..(d.len \div 2) : InBand(d.len, k, lo, hi)})
BandSum(d, lo, hi) ==
    d.hi * Cardinality({k \in 0..(d.len \div 2) :
                            InBand(d.len, k, lo, hi) /\ k < d.cut})
    + d.lo * Cardinality({k \in 0..(d.len \div 2) :
                            InBand(d.len, k, lo, hi) /\ k >= d.cut})

\* The energy e is the arithmetic mean of the bins of test frame d in
\* [lo, hi) Hz, when there are any: their sum divided by their number, as a
\* float.
IsBandMean(e, d, lo, hi) ==
    BandCount(d, lo, hi) > 0 =>
        e = FloatDiv(Float(BandSum(d, lo, hi)), Float(BandCount(d, lo, hi)))

\* The bins lines 35-37 select for each band in a frame of BLOCKSIZE samples.
BlockBins ==
    [b \in DOMAIN BandEdges |->
        BandBins(BLOCKSIZE, BandEdges[b][1], BandEdges[b][2])]

\* C17: a bin of frequency f = k x 44100 / N is selected for bass
\* iff 20 <= f < 250, for mid iff 250 <= f < 4000, for treble iff
\* 4000 <= f < 16000, so for at most one band, and for none when f < 20 (the
\* DC bin among them) or f >= 16000; each band energy is the arithmetic mean
\* of the magnitudes of exactly its bins.
C17_Bands ==
    ppc = "lock" =>
        LET n == indata.len
            b == BlockBins.bass
            m == BlockBins.mid
            t == BlockBins.treble
        IN /\ n = BLOCKSIZE
           /\ \A k \in 0..(n \div 2) :
                 /\ k \in b <=> InBand(n, k, 20, 250)
                 /\ k \in m <=> InBand(n, k, 250, 4000)
                 /\ k \in t <=> InBand(n, k, 4000, 16000)
                 /\ (k * 44100 < 20 * n \/ k * 44100 >= 16000 * n) =>
                       k \notin b \cup m \cup t
           /\ b \cap m = {} /\ b \cap t = {} /\ m \cap t = {}
           /\ 0 \notin b \cup m \cup t
           /\ IsBandMean(bass, indata, 20, 250)
           /\ IsBandMean(mid, indata, 250, 4000)
           /\ IsBandMean(treble, indata, 4000, 16000)

\* C17 witness: a frame of 1024 samples whose magnitudes are 2 in bins 0..40
\* and 1 from bin 41 on has been analysed: bass is the mean of bins 1..5,
\* mid the mean of bins 6..92 (35 of them at 2, 52 at 1), treble the mean of
\* bins 93..371.
C17_Witness ==
    /\ ppc = "lock"
    /\ indata = [len |-> BLOCKSIZE, cut |-> 41, hi |-> 2, lo |-> 1]
    /\ bass = Float(2)
    /\ mid = FloatDiv(Float(35 * 2 + 52 * 1), Float(87))
    /\ treble = Float(1)


\* C18: whenever the data lock is free the four history buffers each hold
\* Min(sample_counter, HISTORY_MAXLEN) entries and recent_bass holds
\* Min(sample_counter, RECENT_MAXLEN): the detector state and the history
\* advance in one critical section, and outside it one is never seen ahead
\* of the other.
C18_InStep ==
    data_lock = "free" =>
        /\ Len(bass_history) = Min(sample_counter, HISTORY_MAXLEN)
        /\ Len(mid_history) = Min(sample_counter, HISTORY_MAXLEN)
        /\ Len(treble_history) = Min(sample_counter, HISTORY_MAXLEN)
        /\ Len(beat_flags) = Min(sample_counter, HISTORY_MAXLEN)
        /\ Len(recent_bass) = Min(sample_counter, RECENT_MAXLEN)
        /\ sample_counter > 0 => Last(recent_bass) = Last(bass_history)

\* C18 witness: the lock is free after a call beyond both capacities.
C18_Witness ==
    /\ data_lock = "free"
    /\ ppc = "report"
    /\ sample_counter > HISTORY_MAXLEN
    /\ Len(bass_history) = HISTORY_MAXLEN
    /\ Len(recent_bass) = RECENT_MAXLEN

\* The sample indices at which a beat fired, as a set.
FiredAt == {fired[i] : i \in 1..Len(fired)}

\* C19: with last_beat_sample starting at -1 and a cooldown of 15, no call
\* with a sample index below 14 fires a beat, whatever the frames: no such
\* index is among the firing indices, and the flags appended by the first 13
\* calls are false.
C19_Earliest ==
    /\ \A i \in 1..Len(fired) : fired[i] >= 14
    /\ \A i \in 1..Min(13, Len(appended)) : ~appended[i].beat
    /\ (Detected /\ sample_counter < 14) => beat = 0

\* C19 witness: the 14th call fires.
C19_Witness ==
    /\ ppc = "append_bass"
    /\ sample_counter = 14
    /\ beat = 1
    /\ fired = <<14>>
    /\ last_beat_sample = 14

\* C20: whenever the data lock is free, last_beat_sample is -1 exactly when
\* no call has fired and otherwise is the sample index of the latest firing
\* call, so -1 <= last_beat_sample <= sample_counter; the flag stored for a
\* frame is true exactly when its call fired; and while fewer than 200 frames
\* have been processed the last true flag of beat_flags is the one of frame
\* last_beat_sample (list index last_beat_sample - 1).
C20_LastBeat ==
    data_lock = "free" =>
        /\ last_beat_sample = -1 <=> fired = << >>
        /\ fired # << >> => last_beat_sample = Last(fired)
        /\ -1 <= last_beat_sample /\ last_beat_sample <= sample_counter
        /\ \A i \in 1..Len(appended) : appended[i].beat <=> i \in FiredAt
        /\ \A i \in 1..Len(beat_flags) :
              beat_flags[i] <=>
                  (Len(appended) - Len(beat_flags) + i) \in FiredAt
        /\ sample_counter < HISTORY_MAXLEN =>
              /\ last_beat_sample # -1 => beat_flags[last_beat_sample]
              /\ \A i \in 1..Len(beat_flags) :
                    i > last_beat_sample => ~beat_flags[i]

\* C20 witness: the lock is free, several beats have fired, fewer than 200
\* frames have been processed and frames follow the latest beat.
C20_Witness ==
    /\ data_lock = "free"
    /\ ppc = "idle"
    /\ Len(fired) >= 3
    /\ sample_counter < HISTORY_MAXLEN
    /\ last_beat_sample < sample_counter
    /\ beat_flags[last_beat_sample]

====
